---- MODULE Spec2Model ----
(***************************************************************************)
(* Model of the FloatAST server core: the conversation parser              *)
(* (parseConversationToFloatAST), the in-memory storage, and the           *)
(* fragment-extraction route with its oracle call and its deterministic    *)
(* fallback (extractFragmentsWithAI / extractFragmentsManually); the       *)
(* conversation and zine routes; the client's CommandPalette and           *)
(* ThreadBuilder components; and FloatQL where filtering.                  *)
(*                                                                         *)
(* Strings are sequences of one-character strings, so that split, trim,    *)
(* toLowerCase, includes and the author pattern are computed character by  *)
(* character as the JavaScript does.                                       *)
(***************************************************************************)
EXTENDS Integers, Sequences, FiniteSets, TLC

VARIABLES
  conversations,  \* MemStorage.conversations: id -> Conversation
  floatAsts,      \* MemStorage.floatAsts: id -> FloatASTRecord
  uuidCount,      \* number of randomUUID() values handed out so far
  req,            \* one extract-fragments request per client: its position and data
  fallbackLog,    \* the arguments and the result of one earlier fallback call
  parse,          \* the parse requests being handled: their position and locals
  fetched,        \* the last response of GET /api/float-asts/:id
  zines,          \* MemStorage.zines: id -> Zine
  reply,          \* the last response of a conversation or zine route
  palette,        \* CommandPalette: its props, its useState values, its mutation and timers
  builder,        \* ThreadBuilder: its useState values and the clock
  ql              \* a FloatQL query under evaluation and its results

storeVars == <<conversations, floatAsts, uuidCount, req, fallbackLog, parse, fetched>>

otherVars == <<zines, reply, palette, builder, ql>>

vars == <<conversations, floatAsts, uuidCount, req, fallbackLog, parse, fetched,
          zines, reply, palette, builder, ql>>

-----------------------------------------------------------------------------
(* Bounds of the model *)

MaxLines == 3        \* lines of text in an uploaded conversation
MaxParses == 2       \* parse requests served per conversation
MaxOracleItems == 2  \* length of a JSON array answered by the oracle

-----------------------------------------------------------------------------
(* JavaScript string primitives *)

\* String.prototype.toLowerCase, on the letters the inputs use
LowerChar(c) ==
  CASE c = "A" -> "a"
    [] c = "B" -> "b"
    [] c = "H" -> "h"
    [] c = "I" -> "i"
    [] c = "K" -> "k"
    [] c = "M" -> "m"
    [] c = "N" -> "n"
    [] c = "O" -> "o"
    [] c = "S" -> "s"
    [] c = "T" -> "t"
    [] c = "Y" -> "y"
    [] OTHER -> c

toLowerCase(s) == [i \in 1..Len(s) |-> LowerChar(s[i])]

\* the characters the regular-expression class \s and trim() treat as white space
IsSpace(c) == c \in {" ", "\t", "\n", "\r"}

\* the characters the regular-expression dot does not match
IsLineTerminator(c) == c \in {"\n", "\r"}

\* String.prototype.includes
includes(s, w) ==
  \E i \in 0..(Len(s) - Len(w)) : SubSeq(s, i + 1, i + Len(w)) = w

\* a string handed back with its white space
untrimmed(s) == s

\* String.prototype.trim
trim(s) ==
  LET keep == {i \in 1..Len(s) : ~IsSpace(s[i])}
  IN  IF keep = {} THEN <<>>
      ELSE LET lo == CHOOSE i \in keep : \A j \in keep : i <= j
               hi == CHOOSE i \in keep : \A j \in keep : j <= i
           IN  SubSeq(s, lo, hi)

\* content.split('\n'): the pieces between line feeds, empty pieces included
RECURSIVE splitLines(_)
splitLines(s) ==
  LET nl == {i \in 1..Len(s) : s[i] = "\n"}
  IN  IF nl = {} THEN <<s>>
      ELSE LET p == CHOOSE i \in nl : \A j \in nl : i <= j
           IN  <<SubSeq(s, 1, p - 1)>> \o splitLines(SubSeq(s, p + 1, Len(s)))

\* query.split(/\s+/): the pieces between maximal runs of white space; a
\* leading or trailing run leaves an empty piece, and "" splits into <<"">>
RECURSIVE splitWhitespace(_)
splitWhitespace(s) ==
  LET sp == {i \in 1..Len(s) : IsSpace(s[i])}
  IN  IF sp = {} THEN <<s>>
      ELSE LET p == CHOOSE i \in sp : \A j \in sp : i <= j
               after == {i \in (p + 1)..Len(s) : ~IsSpace(s[i])}
               q == IF after = {} THEN Len(s) + 1
                    ELSE CHOOSE i \in after : \A j \in after : i <= j
           IN  <<SubSeq(s, 1, p - 1)>> \o splitWhitespace(SubSeq(s, q, Len(s)))

\* Array.prototype.join with a one-character separator
RECURSIVE join(_, _)
join(ss, sep) ==
  IF ss = <<>> THEN <<>>
  ELSE IF Len(ss) = 1 THEN ss[1]
  ELSE ss[1] \o <<sep>> \o join(Tail(ss), sep)

-----------------------------------------------------------------------------
(* The parser *)

\* line.match(/^([^:]+):\s*(.+)$/): the author is the non-empty text before
\* the first colon; \s* is greedy but gives characters back so that (.+) gets
\* at least one character, none of them a line terminator, up to the end
messageMatch(line) ==
  LET colons == {i \in 1..Len(line) : line[i] = ":"}
  IN  IF colons = {} THEN [matched |-> FALSE, author |-> <<>>, text |-> <<>>]
      ELSE
        LET p == CHOOSE i \in colons : \A j \in colons : i <= j
            rest == SubSeq(line, p + 1, Len(line))
            cuts == {k \in 0..(Len(rest) - 1) :
                       /\ \A i \in 1..k : IsSpace(rest[i])
                       /\ \A i \in (k + 1)..Len(rest) : ~IsLineTerminator(rest[i])}
        IN  IF p = 1 \/ cuts = {}
            THEN [matched |-> FALSE, author |-> <<>>, text |-> <<>>]
            ELSE LET k == CHOOSE c \in cuts : \A d \in cuts : d <= c
                 IN  [matched |-> TRUE,
                      author  |-> SubSeq(line, 1, p - 1),
                      text    |-> SubSeq(rest, k + 1, Len(rest))]

Assistant == <<"a", "s", "s", "i", "s", "t", "a", "n", "t">>

\* a role test that forgets to lower-case the author
roleOfAuthorCaseSensitive(author) ==
  IF includes(author, Assistant) THEN "assistant" ELSE "human"

\* role of a node built from a line that matched the author pattern
roleOfAuthor(author) ==
  IF includes(toLowerCase(author), Assistant) THEN "assistant" ELSE "human"

\* lines.filter(line => line.trim()): the lines with a character that is not
\* white space, in their order
RECURSIVE filterNonBlank(_)
filterNonBlank(lines) ==
  IF lines = <<>> THEN <<>>
  ELSE (IF trim(Head(lines)) # <<>> THEN <<Head(lines)>> ELSE <<>>)
         \o filterNonBlank(Tail(lines))

\* the lines the parser iterates over
nonBlankLines(content) == filterNonBlank(splitLines(content))

\* the node of a line that matched the pattern (routes.ts 203-215)
messageNode(m, currentIndex, uuid) ==
  [id |-> <<"node", uuid>>, type |-> "message",
   role |-> roleOfAuthor(m.author),
   raw |-> m.text, processed |-> trim(m.text),
   index |-> currentIndex, depth |-> 0]

\* a general node that is given the role of a human speaker
generalNodeAsHuman(line, currentIndex, uuid) ==
  [id |-> <<"node", uuid>>, type |-> "message",
   role |-> "human",
   raw |-> line, processed |-> trim(line),
   index |-> currentIndex, depth |-> 0]

\* the node of any other non-blank line (routes.ts 220-231); "undefined"
\* stands for the role the object literal does not set
generalNode(line, currentIndex, uuid) ==
  [id |-> <<"node", uuid>>, type |-> "message",
   role |-> "undefined",
   raw |-> line, processed |-> trim(line),
   index |-> currentIndex, depth |-> 0]

\* currentIndex after `index: currentIndex++` in the branch of a matching line
indexAfterMessage(currentIndex) == currentIndex + 1

\* a branch that uses currentIndex without incrementing it
indexAfterGeneralStale(currentIndex) == currentIndex

\* currentIndex after `index: currentIndex++` in the branch of other lines
indexAfterGeneral(currentIndex) == currentIndex + 1

\* the loop over the lines: nodes built so far, the running currentIndex, and
\* uuid, the number of randomUUID() values drawn so far
RECURSIVE parseLoop(_, _, _, _)
parseLoop(lines, nodes, currentIndex, uuid) ==
  IF lines = <<>> THEN nodes
  ELSE
    LET line == Head(lines)
        m == messageMatch(line)
    IN  IF m.matched
        THEN parseLoop(Tail(lines),
                       Append(nodes, messageNode(m, currentIndex, uuid + 1)),
                       indexAfterMessage(currentIndex), uuid + 1)
        ELSE IF trim(line) # <<>>
        THEN parseLoop(Tail(lines),
                       Append(nodes, generalNode(line, currentIndex, uuid + 1)),
                       indexAfterGeneral(currentIndex), uuid + 1)
        ELSE parseLoop(Tail(lines), nodes, currentIndex, uuid)

\* parseConversationToFloatAST; uuid0 is the number of uuids drawn before the
\* call: the nodes draw theirs in order and the document draws the next one.
\* The creation and modification times are left out.
parseConversationToFloatAST(content, title, uuid0) ==
  LET nodes == parseLoop(nonBlankLines(content), <<>>, 0, uuid0)
  IN  [id |-> <<"ast", uuid0 + Len(nodes) + 1>>,
       version |-> "1.0",
       type |-> "conversation",
       project |-> title,
       nodes |-> nodes,
       concepts |-> <<>>,
       patterns |-> [ctx_markers |-> 0, float_dispatches |-> 0,
                     ritual_invocations |-> 0, bridge_creates |-> 0,
                     persona_switches |->
                       Cardinality({i \in 1..Len(nodes) : nodes[i].role = "assistant"})],
       edges |-> <<>>]

-----------------------------------------------------------------------------
(* The deterministic fallback: extractFragmentsManually *)

Digit == <<"0", "1", "2", "3", "4", "5", "6", "7", "8", "9">>

\* the decimal text a template literal gives a non-negative integer
RECURSIVE decimal(_)
decimal(n) ==
  IF n < 10 THEN <<Digit[n + 1]>>
  ELSE decimal(n \div 10) \o <<Digit[(n % 10) + 1]>>

\* `Contains ${relevanceScore} query terms`
relevanceText(relevanceScore) ==
  <<"C", "o", "n", "t", "a", "i", "n", "s", " ">>
    \o decimal(relevanceScore)
    \o <<" ", "q", "u", "e", "r", "y", " ", "t", "e", "r", "m", "s">>

General == <<"G", "e", "n", "e", "r", "a", "l">>

\* queryWords.filter(word => text.includes(word))
RECURSIVE matchedWords(_, _)
matchedWords(queryWords, text) ==
  IF queryWords = <<>> THEN <<>>
  ELSE (IF includes(text, Head(queryWords)) THEN <<Head(queryWords)>> ELSE <<>>)
         \o matchedWords(Tail(queryWords), text)

\* queryWords.reduce((score, word) => text.includes(word) ? score + 1 : score, 0)
relevanceScoreOf(queryWords, text) == Len(matchedWords(queryWords, text))

\* a test that also lets in the nodes no query word occurs in
isRelevantOrZero(relevanceScore) == relevanceScore >= 0

\* the test `relevanceScore > 0` that lets a node into the fragments
isRelevant(relevanceScore) == relevanceScore > 0

\* the object pushed for a node that passed the test
scoredFragment(node, queryWords) ==
  LET text == toLowerCase(node.raw)
  IN  [text |-> node.raw,
       relevance |-> relevanceText(relevanceScoreOf(queryWords, text)),
       keywords |-> matchedWords(queryWords, text),
       category |-> General,
       score |-> relevanceScoreOf(queryWords, text)]

\* the loop over floatAst.nodes, pushing in array order
RECURSIVE collectFragments(_, _)
collectFragments(nodes, queryWords) ==
  IF nodes = <<>> THEN <<>>
  ELSE
    LET node == Head(nodes)
        relevanceScore == relevanceScoreOf(queryWords, toLowerCase(node.raw))
    IN  (IF isRelevant(relevanceScore)
         THEN <<scoredFragment(node, queryWords)>> ELSE <<>>)
          \o collectFragments(Tail(nodes), queryWords)

\* a stable sort by the comparator (a, b) => b.score - a.score: every element
\* is placed after the elements already placed whose score is not smaller
RECURSIVE insertByScore(_, _)
insertByScore(sorted, f) ==
  IF sorted = <<>> THEN <<f>>
  ELSE IF Head(sorted).score >= f.score
       THEN <<Head(sorted)>> \o insertByScore(Tail(sorted), f)
       ELSE <<f>> \o sorted

RECURSIVE stableSortByScore(_)
stableSortByScore(fragments) ==
  IF fragments = <<>> THEN <<>>
  ELSE insertByScore(stableSortByScore(SubSeq(fragments, 1, Len(fragments) - 1)),
                     fragments[Len(fragments)])

\* the orders every permutation of the fragments can take with the scores
\* not increasing: what a sort that is not stable may return
unstableSortOutcomes(fragments) ==
  LET n == Len(fragments)
      perms == {p \in [1..n -> 1..n] : \A i, j \in 1..n : i # j => p[i] # p[j]}
  IN  {[i \in 1..n |-> fragments[p[i]]] : p \in
         {q \in perms : \A i \in 1..(n - 1) :
                          fragments[q[i]].score >= fragments[q[i + 1]].score}}

\* the arrays fragments.sort((a, b) => b.score - a.score) may return:
\* Array.prototype.sort is stable, so there is one
sortOutcomes(fragments) == {stableSortByScore(fragments)}

\* Array.prototype.slice(0, end): a negative end counts from the end
slice0(s, end) ==
  LET n == Len(s)
      stop == IF end < 0 THEN (IF n + end < 0 THEN 0 ELSE n + end)
              ELSE (IF end > n THEN n ELSE end)
  IN  SubSeq(s, 1, stop)

\* the object handed on with its score
keepingScore(f) == f

\* ({ score, ...fragment }) => fragment
withoutScore(f) ==
  [text |-> f.text, relevance |-> f.relevance,
   keywords |-> f.keywords, category |-> f.category]

\* a JSON array value
Array(items) == [kind |-> "array", items |-> items]

NoValue == [kind |-> "none", items |-> <<>>]

\* the outcomes of extractFragmentsManually(floatAst, query, maxFragments):
\* it throws a TypeError at query.toLowerCase() when query is undefined, and
\* otherwise returns the sorted, cut and stripped fragments
extractFragmentsManually(floatAst, query, maxFragments) ==
  IF ~query.present
  THEN {[threw |-> TRUE, value |-> NoValue, path |-> "fallback", runs |-> 1]}
  ELSE
    LET queryWords == splitWhitespace(toLowerCase(query.value))
        fragments == collectFragments(floatAst.nodes, queryWords)
    IN  {[threw |-> FALSE,
          value |-> Array([i \in 1..Len(slice0(sorted, maxFragments)) |->
                             withoutScore(slice0(sorted, maxFragments)[i])]),
          path  |-> "fallback", runs |-> 1] : sorted \in sortOutcomes(fragments)}

-----------------------------------------------------------------------------
(* The oracle path: extractFragmentsWithAI *)

\* JSON.parse(content): the value of a well-formed text, a SyntaxError otherwise
jsonParse(content) ==
  IF content.wellFormed THEN [threw |-> FALSE, value |-> content.value]
  ELSE [threw |-> TRUE, value |-> NoValue]

\* the part of extractFragmentsWithAI after `await openai.chat.completions
\* .create(...)` settles with outcome o: a rejection and a response without
\* content go to the outer catch, which runs the fallback; a content that
\* does not parse goes to the inner catch, which runs the fallback, and what
\* the fallback throws there is caught by the outer catch, which runs it
\* again; a content that parses is returned as it is. `runs` counts the calls
\* of extractFragmentsManually.
continueAfterOracle(floatAst, query, maxFragments, o) ==
  IF o.rejected \/ ~o.hasContent
  THEN extractFragmentsManually(floatAst, query, maxFragments)
  ELSE IF jsonParse(o.content).threw
  THEN {IF inner.threw THEN [outer EXCEPT !.runs = 2] ELSE inner :
          inner \in extractFragmentsManually(floatAst, query, maxFragments),
          outer \in extractFragmentsManually(floatAst, query, maxFragments)}
  ELSE {[threw |-> FALSE, value |-> jsonParse(o.content).value,
         path |-> "oracle", runs |-> 0]}

-----------------------------------------------------------------------------
(* Inputs *)

\* the callers of the extraction route that have a request slot
Clients == DOMAIN req

OneClient == {"r1"}
TwoClients == {"r1", "r2"}

\* the parse requests the server can be handling
Handlers == {"p1", "p2"}

ConversationId == "c1"
MissingId == <<"ast", 0>>

\* lines of the conversations the extraction is run on
ExtractLines ==
  { <<"B", "o", "b", ":", " ", "h", "i">>,
    <<"o", "k">>,
    <<"A", "s", "s", "i", "s", "t", "a", "n", "t", ":", " ", "H", "i", " ", "o", "k">> }

\* lines of the conversations two callers extract from at once
TwoLines ==
  { <<"B", "o", "b", ":", " ", "h", "i">>,
    <<"A", "s", "s", "i", "s", "t", "a", "n", "t", ":", " ", "H", "i", " ", "o", "k">> }

\* lines of the conversations the parser is run on
ParseLines ==
  ExtractLines \cup
  { <<" ">>,
    <<"m", "y", " ", "A", "S", "S", "I", "S", "T", "A", "N", "T", ":", "o", "k">>,
    <<"b", ":", " ", "a", "s", "s", "i", "s", "t", "a", "n", "t">>,
    <<":", "h", "i">>,
    <<"a", ":">>,
    <<"a", ":", " ", "b", ":", " ", "c">>,
    <<"B", "o", "b", ":", " ", "H", "i", "\r">> }

SeqsUpTo(S, n) == UNION {[1..k -> S] : k \in 0..n}

ContentsOf(lines) == {join(ls, "\n") : ls \in SeqsUpTo(lines, MaxLines)}

Undefined == [present |-> FALSE, value |-> <<>>]
Str(s) == [present |-> TRUE, value |-> s]
Num(n) == [present |-> TRUE, value |-> n]
NoNumber == [present |-> FALSE, value |-> 0]

Queries ==
  { Str(<<"h", "i", " ", "o", "k">>), Str(<<"O", "K">>), Str(<<>>), Undefined }

MaxFragmentsInputs == { Num(-1), Num(1), Num(21), NoNumber }

Bodies == [query : Queries, maxFragments : MaxFragmentsInputs]

\* the bodies two callers send at once
TwoBodies ==
  [query : {Str(<<"h", "i", " ", "o", "k">>), Undefined},
   maxFragments : {Num(1), NoNumber}]

OracleFragment ==
  [text |-> <<"h", "i">>, relevance |-> <<"o", "k">>,
   keywords |-> << <<"h", "i">> >>, category |-> <<"A", "I">>]

MalformedItem == [text |-> <<"h", "i">>, score |-> <<"1">>]

OracleValues ==
  {Array([i \in 1..k |-> OracleFragment]) : k \in 0..MaxOracleItems}
    \cup {Array(<<MalformedItem>>), [kind |-> "object", items |-> <<>>]}

NoContent == [wellFormed |-> FALSE, value |-> NoValue]

\* how the call to the oracle can settle
OracleOutcomes ==
  {[rejected |-> TRUE, hasContent |-> FALSE, content |-> NoContent],
   [rejected |-> FALSE, hasContent |-> FALSE, content |-> NoContent],
   [rejected |-> FALSE, hasContent |-> TRUE, content |-> NoContent]}
    \cup {[rejected |-> FALSE, hasContent |-> TRUE,
           content |-> [wellFormed |-> TRUE, value |-> v]] : v \in OracleValues}

-----------------------------------------------------------------------------
(* Storage (MemStorage) *)

\* createFloatAST: the record stored under id
floatAstRecord(id, data, userId) == [id |-> id, data |-> data, userId |-> userId]

-----------------------------------------------------------------------------
(* Routes *)

DefaultMaxFragments == 10

\* `const { query, maxFragments = 10 } = req.body`
maxFragmentsOf(body) ==
  IF body.maxFragments.present THEN body.maxFragments.value ELSE DefaultMaxFragments

NoOutcome == [rejected |-> FALSE, hasContent |-> FALSE, content |-> NoContent]

IdleReq ==
  [pc |-> "idle", id |-> MissingId, query |-> Undefined, maxFragments |-> 0,
   floatAst |-> <<>>, asked |-> 0, outcome |-> NoOutcome,
   response |-> [status |-> 0, fragments |-> NoValue], path |-> "none", runs |-> 0]

\* a parse request slot with no request in progress
IdleParse ==
  [pc |-> "idle", id |-> "none", found |-> FALSE, conversation |-> <<>>,
   floatAst |-> <<>>,
   record |-> <<>>, response |-> [status |-> 0, body |-> <<>>]]

NoResponse == [status |-> 0, body |-> <<>>]

\* a document whose nodes were reordered in place
storedDataReordered(data) ==
  [data EXCEPT !.nodes = [i \in 1..Len(@) |-> @[Len(@) + 1 - i]]]

\* the FloatAST document held by the store after a request worked on it: the
\* handler holds the stored object itself (getFloatAST returns the map's
\* value), and neither path assigns to it or sorts its nodes in place
storedDataAfterExtraction(data) == data

NoLog ==
  [set |-> FALSE, floatAst |-> <<>>, query |-> Undefined, maxFragments |-> 0,
   value |-> NoValue]

\* the initial useState values of CommandPalette, closed, with no request
\* in flight and no reset timer set
IdlePalette ==
  [open |-> FALSE, mount |-> "App", search |-> <<>>, selectedIndex |-> 0,
   mode |-> "commands", siftQuery |-> <<>>, extractedFragments |-> <<>>,
   isPending |-> FALSE, timers |-> 0, executed |-> "none", calls |-> 0,
   quiet |-> FALSE]

\* the initial useState values of ThreadBuilder
IdleBuilder ==
  [threads |-> <<[id |-> <<"thread", 1>>, title |-> "Information Processing Patterns"],
                 [id |-> <<"thread", 2>>, title |-> "Cognitive Transformation"]>>,
   selectedThread |-> <<"thread", 1>>, now |-> 0,
   last |-> [op |-> "none", id |-> <<"null", 0>>, selected |-> <<"null", 0>>]]

\* no FloatQL query under evaluation
IdleQL == [nodes |-> <<>>, where |-> <<>>, result |-> <<>>]

NoReply == [route |-> "none", id |-> "none", status |-> 0]

\* no zine stored, no route answered, and the client components as mounted
othersIdle ==
  /\ zines = <<>>
  /\ reply = NoReply
  /\ palette = IdlePalette
  /\ builder = IdleBuilder
  /\ ql = IdleQL

\* an uploaded conversation, as createConversation stores it
conversationOf(content) ==
  [content |-> content, title |-> <<"t">>, floatAstId |-> MissingId, userId |-> "null"]

\* the storage after one conversation was uploaded and parsed: the state the
\* extraction requests start from
Init ==
  \E content \in ContentsOf(ExtractLines) :
    LET floatAst == parseConversationToFloatAST(content, <<"t">>, 0)
    IN  /\ conversations =
             [i \in {ConversationId} |->
                [conversationOf(content) EXCEPT !.floatAstId = floatAst.id]]
        /\ floatAsts = [k \in {floatAst.id} |-> floatAstRecord(floatAst.id, floatAst, "null")]
        /\ uuidCount = Len(floatAst.nodes) + 1
        /\ req = [c \in OneClient |-> IdleReq]
        /\ fallbackLog = NoLog
        /\ parse = [h \in Handlers |-> IdleParse]
        /\ fetched = NoResponse
        /\ othersIdle

\* the storage after one conversation was uploaded
InitParse ==
  \E content \in ContentsOf(ParseLines) :
    /\ conversations = [i \in {ConversationId} |-> conversationOf(content)]
    /\ floatAsts = <<>>
    /\ uuidCount = 0
    /\ req = [c \in OneClient |-> IdleReq]
    /\ fallbackLog = NoLog
    /\ parse = [h \in Handlers |-> IdleParse]
    /\ fetched = NoResponse
    /\ othersIdle

\* POST /api/conversations/:id/parse for a stored conversation
ParseConversation(id) ==
  /\ id \in DOMAIN conversations
  /\ Cardinality(DOMAIN floatAsts) < MaxParses
  /\ LET conversation == conversations[id]
         floatAst == parseConversationToFloatAST(conversation.content,
                                                 conversation.title, uuidCount)
     IN  /\ floatAsts' = [k \in DOMAIN floatAsts \cup {floatAst.id} |->
                            IF k = floatAst.id
                            THEN floatAstRecord(floatAst.id, floatAst, conversation.userId)
                            ELSE floatAsts[k]]
         /\ conversations' = [conversations EXCEPT ![id].floatAstId = floatAst.id]
         /\ uuidCount' = uuidCount + Len(floatAst.nodes) + 1
  /\ UNCHANGED <<req, fallbackLog, parse, fetched>>
  /\ UNCHANGED otherVars

\* POST /api/float-asts/:id/extract-fragments up to the call of the oracle:
\* 404 when no record is stored under id, else the prompt, which asks for
\* maxFragments fragments, is sent and the handler waits
ExtractBegin(c, id, body) ==
  /\ req[c].pc = "idle"
  /\ IF id \notin DOMAIN floatAsts
     THEN req' = [req EXCEPT ![c] =
                    [IdleReq EXCEPT !.pc = "done", !.id = id,
                                    !.response = [status |-> 404, fragments |-> NoValue]]]
     ELSE req' = [req EXCEPT ![c] =
                    [IdleReq EXCEPT !.pc = "oracle", !.id = id,
                                    !.query = body.query,
                                    !.maxFragments = maxFragmentsOf(body),
                                    !.floatAst = floatAsts[id].data,
                                    !.asked = maxFragmentsOf(body)]]
  /\ UNCHANGED <<conversations, floatAsts, uuidCount, fallbackLog, parse, fetched>>
  /\ UNCHANGED otherVars

\* the call of the oracle settles with outcome o; nothing in the handler
\* makes this happen, it waits for as long as the call stays pending
OracleSettles(c, o) ==
  /\ req[c].pc = "oracle"
  /\ req' = [req EXCEPT ![c].pc = "settled", ![c].outcome = o]
  /\ UNCHANGED <<conversations, floatAsts, uuidCount, fallbackLog, parse, fetched>>
  /\ UNCHANGED otherVars

\* the handler resumes after the await and runs to its response: 200 with
\* what extractFragmentsWithAI returned, 500 when it threw
HandlerResumes(c) ==
  /\ req[c].pc = "settled"
  /\ \E out \in continueAfterOracle(req[c].floatAst, req[c].query,
                                    req[c].maxFragments, req[c].outcome) :
       req' = [req EXCEPT ![c].pc = "done",
                          ![c].path = out.path,
                          ![c].runs = out.runs,
                          ![c].response =
                            IF out.threw
                            THEN [status |-> 500, fragments |-> NoValue]
                            ELSE [status |-> 200, fragments |-> out.value]]
  /\ floatAsts' = [k \in DOMAIN floatAsts |->
                     IF k = req[c].id
                     THEN [floatAsts[k] EXCEPT !.data = storedDataAfterExtraction(@)]
                     ELSE floatAsts[k]]
  /\ UNCHANGED <<conversations, uuidCount, fallbackLog, parse, fetched>>
  /\ UNCHANGED otherVars

\* the client has its response and may send the next request; the log may
\* keep the arguments and the result of a fallback call that returned
ClientDone(c) ==
  /\ req[c].pc = "done"
  /\ req' = [req EXCEPT ![c] = IdleReq]
  /\ \/ UNCHANGED fallbackLog
     \/ /\ req[c].path = "fallback"
        /\ req[c].response.status = 200
        /\ fallbackLog' = [set |-> TRUE, floatAst |-> req[c].floatAst,
                           query |-> req[c].query,
                           maxFragments |-> req[c].maxFragments,
                           value |-> req[c].response.fragments]
  /\ UNCHANGED <<conversations, floatAsts, uuidCount, parse, fetched>>
  /\ UNCHANGED otherVars

Next ==
  \/ \E c \in Clients, id \in DOMAIN floatAsts \cup {MissingId}, body \in Bodies :
       ExtractBegin(c, id, body)
  \/ \E c \in Clients, o \in OracleOutcomes : OracleSettles(c, o)
  \/ \E c \in Clients : HandlerResumes(c)
  \/ \E c \in Clients : ClientDone(c)

Spec == Init /\ [][Next]_vars

\* the event loop runs the continuation of a settled await
FairSpec == Spec /\ \A c \in OneClient : WF_vars(HandlerResumes(c))

NextParse == \E id \in DOMAIN conversations : ParseConversation(id)

SpecParse == InitParse /\ [][NextParse]_vars

-----------------------------------------------------------------------------
(* The parse route step by step, with the requests that can run between its
   awaits *)

\* JSON.stringify leaves out a member whose value is undefined
jsonNode(node) ==
  IF node.role = "undefined"
  THEN [f \in DOMAIN node \ {"role"} |-> node[f]]
  ELSE node

\* an array keeps one element per item
jsonNodesDroppingIncomplete(nodes) ==
  LET RECURSIVE keep(_)
      keep(ns) == IF ns = <<>> THEN <<>>
                  ELSE IF Head(ns).role = "undefined" THEN keep(Tail(ns))
                  ELSE <<jsonNode(Head(ns))>> \o keep(Tail(ns))
  IN  keep(nodes)

jsonNodes(nodes) == [i \in 1..Len(nodes) |-> jsonNode(nodes[i])]

\* res.json(record): the body the client parses back
jsonRecord(record) ==
  [record EXCEPT !.data = [record.data EXCEPT !.nodes = jsonNodes(record.data.nodes)]]

\* lines and replacement contents of the conversations of this part
StoreLines == {<<"B", "o", "b", ":", " ", "h", "i">>, <<"o", "k">>, <<" ">>}

StoreContents == ContentsOf(StoreLines)

\* the bodies of PUT /api/conversations/:id that pass the partial schema
Updates ==
  {[content |-> <<>>], [content |-> <<"o", "k">>], [floatAstId |-> MissingId]}

\* updateConversation: `{ ...existing, ...updates }`
merged(existing, updates) ==
  [f \in DOMAIN existing |-> IF f \in DOMAIN updates THEN updates[f] ELSE existing[f]]

\* the parse requests that have read the conversation and not yet stored
ParsesInFlight == {h \in Handlers : parse[h].pc = "read" /\ parse[h].found}

InitStore ==
  \E content \in StoreContents :
    /\ conversations = [i \in {ConversationId} |-> conversationOf(content)]
    /\ floatAsts = <<>>
    /\ uuidCount = 0
    /\ req = [c \in OneClient |-> IdleReq]
    /\ fallbackLog = NoLog
    /\ parse = [h \in Handlers |-> IdleParse]
    /\ fetched = NoResponse
    /\ othersIdle

\* the request arrives: `await storage.getConversation(id)`, whose read of
\* the map happens at the call
ParseStart(h, id) ==
  /\ parse[h].pc = "idle"
  /\ Cardinality(DOMAIN floatAsts) + Cardinality(ParsesInFlight) < MaxParses
  /\ parse' = [parse EXCEPT ![h] =
                 [IdleParse EXCEPT !.pc = "read", !.id = id,
                                   !.found = id \in DOMAIN conversations,
                                   !.conversation =
                                     IF id \in DOMAIN conversations
                                     THEN conversations[id] ELSE <<>>]]
  /\ UNCHANGED <<conversations, floatAsts, uuidCount, req, fallbackLog, fetched>>
  /\ UNCHANGED otherVars

\* after the first await: 404 when nothing was read, else the parse and the
\* call of createFloatAST, whose write happens at the call
\* (the await of the parser in between is one step with it: the parser reads
\* and writes nothing shared, and the identifiers it draws are fresh)
ParseStore(h) ==
  /\ parse[h].pc = "read"
  /\ IF ~parse[h].found
     THEN /\ parse' = [parse EXCEPT ![h].pc = "done",
                                    ![h].response = [status |-> 404, body |-> <<>>]]
          /\ UNCHANGED <<floatAsts, uuidCount>>
     ELSE LET conversation == parse[h].conversation
              floatAst == parseConversationToFloatAST(conversation.content,
                                                      conversation.title, uuidCount)
              record == floatAstRecord(floatAst.id, floatAst, conversation.userId)
          IN  /\ floatAsts' = [k \in DOMAIN floatAsts \cup {floatAst.id} |->
                                 IF k = floatAst.id THEN record ELSE floatAsts[k]]
              /\ uuidCount' = uuidCount + Len(floatAst.nodes) + 1
              /\ parse' = [parse EXCEPT ![h].pc = "stored",
                                        ![h].floatAst = floatAst,
                                        ![h].record = record]
  /\ UNCHANGED <<conversations, req, fallbackLog, fetched>>
  /\ UNCHANGED otherVars

\* after the second await: `await storage.updateConversation(id, {floatAstId})`,
\* which does nothing when the conversation is gone; its result is not looked at
ParseLink(h) ==
  /\ parse[h].pc = "stored"
  /\ conversations' =
       IF parse[h].id \in DOMAIN conversations
       THEN [conversations EXCEPT
               ![parse[h].id] = merged(@, [floatAstId |-> parse[h].floatAst.id])]
       ELSE conversations
  /\ parse' = [parse EXCEPT ![h].pc = "linked"]
  /\ UNCHANGED <<floatAsts, uuidCount, req, fallbackLog, fetched>>
  /\ UNCHANGED otherVars

\* after the third await: `res.json(record)`
ParseRespond(h) ==
  /\ parse[h].pc = "linked"
  /\ parse' = [parse EXCEPT ![h].pc = "done",
                            ![h].response = [status |-> 200,
                                             body |-> jsonRecord(parse[h].record)]]
  /\ UNCHANGED <<conversations, floatAsts, uuidCount, req, fallbackLog, fetched>>
  /\ UNCHANGED otherVars

\* DELETE /api/conversations/:id for a stored conversation
DeleteConversation(id) ==
  /\ id \in DOMAIN conversations
  /\ conversations' = [k \in DOMAIN conversations \ {id} |-> conversations[k]]
  /\ UNCHANGED <<floatAsts, uuidCount, req, fallbackLog, parse, fetched>>
  /\ UNCHANGED otherVars

\* PUT /api/conversations/:id for a stored conversation
UpdateConversation(id, updates) ==
  /\ id \in DOMAIN conversations
  /\ conversations' = [conversations EXCEPT ![id] = merged(@, updates)]
  /\ UNCHANGED <<floatAsts, uuidCount, req, fallbackLog, parse, fetched>>
  /\ UNCHANGED otherVars

\* GET /api/float-asts/:id
GetFloatAST(id) ==
  /\ fetched' = IF id \in DOMAIN floatAsts
                THEN [status |-> 200, body |-> jsonRecord(floatAsts[id])]
                ELSE [status |-> 404, body |-> <<>>]
  /\ UNCHANGED <<conversations, floatAsts, uuidCount, req, fallbackLog, parse>>
  /\ UNCHANGED otherVars

NextStore ==
  \/ \E h \in Handlers : ParseStart(h, ConversationId)
  \/ \E h \in Handlers : ParseStore(h)
  \/ \E h \in Handlers : ParseLink(h)
  \/ \E h \in Handlers : ParseRespond(h)
  \/ DeleteConversation(ConversationId)
  \/ \E updates \in Updates : UpdateConversation(ConversationId, updates)
  \/ \E id \in DOMAIN floatAsts \cup {MissingId} : GetFloatAST(id)

SpecStore == InitStore /\ [][NextStore]_vars

-----------------------------------------------------------------------------
(* The conversation and zine routes, one request at a time *)

MaxUuids == 2   \* conversations and zines created through the API

\* the strings randomUUID() hands out to createConversation and createZine
uuidString(n) == <<"u0", "u1", "u2", "u3", "u4", "u5", "u6", "u7">>[n + 1]

\* a conversation id no conversation was ever stored under
UnknownConversationId == "c0"

\* a string that is the id of no FloatAST
UnknownFloatAstId == <<"ast", -1>>

\* the ids the requests name
RequestIds == DOMAIN conversations \cup {ConversationId, UnknownConversationId}

\* the floatAstId members a body can carry: none (stored as null), the id of
\* a stored FloatAST, or any other string
FloatAstIdInputs == DOMAIN floatAsts \cup {MissingId, UnknownFloatAstId}

\* the bodies of PUT /api/conversations/:id that pass the partial schema
CrudUpdates == {[content |-> <<"o", "k">>]} \cup {[floatAstId |-> f] : f \in FloatAstIdInputs}

\* updateConversation that stores the updates under an id it does not hold
updateConversationUpsert(store, id, updates) ==
  [store |-> [k \in DOMAIN store \cup {id} |->
                IF k = id
                THEN (IF id \in DOMAIN store THEN merged(store[id], updates)
                      ELSE merged(conversationOf(<<>>), updates))
                ELSE store[k]],
   updated |-> TRUE]

\* MemStorage.updateConversation: the map afterwards and whether a record
\* was returned
updateConversation(store, id, updates) ==
  IF id \notin DOMAIN store
  THEN [store |-> store, updated |-> FALSE]
  ELSE [store |-> [store EXCEPT ![id] = merged(@, updates)], updated |-> TRUE]

\* MemStorage.deleteConversation: Map.prototype.delete
deleteConversation(store, id) ==
  [store |-> [k \in DOMAIN store \ {id} |-> store[k]], deleted |-> id \in DOMAIN store]

InitCrud ==
  /\ conversations = [i \in {ConversationId} |-> conversationOf(<<"o", "k">>)]
  /\ floatAsts = <<>>
  /\ uuidCount = 0
  /\ req = [c \in OneClient |-> IdleReq]
  /\ fallbackLog = NoLog
  /\ parse = [h \in Handlers |-> IdleParse]
  /\ fetched = NoResponse
  /\ othersIdle

\* POST /api/conversations with a body that passes insertConversationSchema
PostConversation(floatAstId) ==
  /\ uuidCount < MaxUuids
  /\ LET id == uuidString(uuidCount)
     IN  /\ conversations' =
               [k \in DOMAIN conversations \cup {id} |->
                  IF k = id
                  THEN [conversationOf(<<"o", "k">>) EXCEPT !.floatAstId = floatAstId]
                  ELSE conversations[k]]
         /\ reply' = [route |-> "POST", id |-> id, status |-> 201]
  /\ uuidCount' = uuidCount + 1
  /\ UNCHANGED <<floatAsts, req, fallbackLog, parse, fetched, zines, palette, builder, ql>>

\* GET /api/conversations/:id
GetConversation(id) ==
  /\ reply' = [route |-> "GET", id |-> id,
               status |-> IF id \in DOMAIN conversations THEN 200 ELSE 404]
  /\ UNCHANGED <<storeVars, zines, palette, builder, ql>>

\* PUT /api/conversations/:id with a body that passes the partial schema
PutConversation(id, updates) ==
  /\ LET r == updateConversation(conversations, id, updates)
     IN  /\ conversations' = r.store
         /\ reply' = [route |-> "PUT", id |-> id,
                      status |-> IF r.updated THEN 200 ELSE 404]
  /\ UNCHANGED <<floatAsts, uuidCount, req, fallbackLog, parse, fetched,
                 zines, palette, builder, ql>>

\* DELETE /api/conversations/:id
DeleteConversationRoute(id) ==
  /\ LET r == deleteConversation(conversations, id)
     IN  /\ conversations' = r.store
         /\ reply' = [route |-> "DELETE", id |-> id,
                      status |-> IF r.deleted THEN 200 ELSE 404]
  /\ UNCHANGED <<floatAsts, uuidCount, req, fallbackLog, parse, fetched,
                 zines, palette, builder, ql>>

\* POST /api/conversations/:id/parse, run to its response
ParseRoute(id) ==
  /\ Cardinality(DOMAIN floatAsts) < MaxParses
  /\ IF id \notin DOMAIN conversations
     THEN /\ reply' = [route |-> "parse", id |-> id, status |-> 404]
          /\ UNCHANGED <<conversations, floatAsts, uuidCount>>
     ELSE LET conversation == conversations[id]
              floatAst == parseConversationToFloatAST(conversation.content,
                                                      conversation.title, uuidCount)
          IN  /\ floatAsts' = [k \in DOMAIN floatAsts \cup {floatAst.id} |->
                                 IF k = floatAst.id
                                 THEN floatAstRecord(floatAst.id, floatAst, conversation.userId)
                                 ELSE floatAsts[k]]
              /\ conversations' =
                   updateConversation(conversations, id, [floatAstId |-> floatAst.id]).store
              /\ uuidCount' = uuidCount + Len(floatAst.nodes) + 1
              /\ reply' = [route |-> "parse", id |-> id, status |-> 200]
  /\ UNCHANGED <<req, fallbackLog, parse, fetched, zines, palette, builder, ql>>

\* POST /api/zines with a body that passes insertZineSchema
PostZine(floatAstId) ==
  /\ uuidCount < MaxUuids
  /\ LET id == uuidString(uuidCount)
     IN  /\ zines' = [k \in DOMAIN zines \cup {id} |->
                        IF k = id THEN [status |-> "draft", floatAstId |-> floatAstId]
                        ELSE zines[k]]
         /\ reply' = [route |-> "POST zine", id |-> id, status |-> 201]
  /\ uuidCount' = uuidCount + 1
  /\ UNCHANGED <<conversations, floatAsts, req, fallbackLog, parse, fetched,
                 palette, builder, ql>>

NextCrud ==
  \/ \E f \in FloatAstIdInputs : PostConversation(f)
  \/ \E id \in RequestIds : GetConversation(id)
  \/ \E id \in RequestIds, updates \in CrudUpdates : PutConversation(id, updates)
  \/ \E id \in RequestIds : DeleteConversationRoute(id)
  \/ \E id \in RequestIds : ParseRoute(id)
  \/ \E f \in FloatAstIdInputs : PostZine(f)

SpecCrud == InitCrud /\ [][NextCrud]_vars

-----------------------------------------------------------------------------
(* Two callers of the extraction route at once *)

\* the storage after one conversation was uploaded and parsed, with two
\* callers about to send their requests
InitTwo ==
  \E content \in ContentsOf(TwoLines) :
    LET floatAst == parseConversationToFloatAST(content, <<"t">>, 0)
    IN  /\ conversations =
             [i \in {ConversationId} |->
                [conversationOf(content) EXCEPT !.floatAstId = floatAst.id]]
        /\ floatAsts = [k \in {floatAst.id} |-> floatAstRecord(floatAst.id, floatAst, "null")]
        /\ uuidCount = Len(floatAst.nodes) + 1
        /\ req = [c \in TwoClients |-> IdleReq]
        /\ fallbackLog = NoLog
        /\ parse = [h \in Handlers |-> IdleParse]
        /\ fetched = NoResponse
        /\ othersIdle

\* each caller sends one request; the steps of the two handlers interleave
NextTwo ==
  \/ \E c \in Clients, id \in DOMAIN floatAsts, body \in TwoBodies :
       ExtractBegin(c, id, body)
  \/ \E c \in Clients, o \in OracleOutcomes : OracleSettles(c, o)
  \/ \E c \in Clients : HandlerResumes(c)

SpecTwo == InitTwo /\ [][NextTwo]_vars

-----------------------------------------------------------------------------
(* The command palette (CommandPalette.tsx) *)

MaxTimers == 1   \* reset timers of handleClose that can be pending at once

\* the commands array
commands ==
  <<[id |-> "sift",
      title |-> <<"/", "s", "i", "f", "t">>,
      description |->
        <<"E", "x", "t", "r", "a", "c", "t", " ", "f", "r", "a", "g", "m", "e", "n", "t", "s", " ", "f", "r", "o", "m", " ", "c", "o", "n", "v", "e", "r", "s", "a", "t", "i", "o", "n">>],
     [id |-> "bind",
      title |-> <<"/", "b", "i", "n", "d">>,
      description |->
        <<"C", "l", "u", "s", "t", "e", "r", " ", "f", "r", "a", "g", "m", "e", "n", "t", "s", " ", "i", "n", "t", "o", " ", "t", "h", "r", "e", "a", "d", "s">>],
     [id |-> "render",
      title |-> <<"/", "r", "e", "n", "d", "e", "r">>,
      description |->
        <<"G", "e", "n", "e", "r", "a", "t", "e", " ", "z", "i", "n", "e", " ", "f", "r", "o", "m", " ", "F", "l", "o", "a", "t", "A", "S", "T">>],
     [id |-> "ast",
      title |-> <<"/", "a", "s", "t">>,
      description |->
        <<"V", "i", "e", "w", " ", "F", "l", "o", "a", "t", "A", "S", "T", " ", "s", "t", "r", "u", "c", "t", "u", "r", "e">>],
     [id |-> "terminal",
      title |-> <<"/", "t", "e", "r", "m", "i", "n", "a", "l">>,
      description |->
        <<"O", "p", "e", "n", " ", "s", "y", "s", "t", "e", "m", " ", "t", "e", "r", "m", "i", "n", "a", "l">>]>>

\* the places that mount the palette: the application shell and two pages,
\* none of which passes currentFloatAstId, and a host that passes it
ApplicationMounts == {"App", "Conversations", "Zines"}

Mounts == {"App", "Conversations", "Host"}

\* whether the prop currentFloatAstId is set
hasCurrentFloatAstId(p) == p.mount \notin ApplicationMounts

\* what the user types into the search input
Searches ==
  {<<>>, <<"/", "s">>, <<"z", "z">>, <<"A", "S", "T">>}

\* what the user types into the query textarea
SiftQueries == {<<>>, <<" ">>, <<"h", "i">>}

\* the fragments arrays of a successful response
ResponseFragments == {[i \in 1..k |-> OracleFragment] : k \in 0..MaxOracleItems}

\* commands.filter(cmd => title or description includes the search, both
\* lower-cased)
RECURSIVE filterCommands(_, _)
filterCommands(cmds, search) ==
  IF cmds = <<>> THEN <<>>
  ELSE (IF \/ includes(toLowerCase(Head(cmds).title), toLowerCase(search))
           \/ includes(toLowerCase(Head(cmds).description), toLowerCase(search))
        THEN <<Head(cmds)>> ELSE <<>>)
         \o filterCommands(Tail(cmds), search)

filteredCommands(p) == filterCommands(commands, p.search)

\* setSearch(value), with the effect on [search] that resets selectedIndex
withSearch(p, value) ==
  [p EXCEPT !.search = value,
            !.selectedIndex = IF value # p.search THEN 0 ELSE @]

\* resetState
resetState(p) ==
  [p EXCEPT !.mode = "commands", !.siftQuery = <<>>, !.extractedFragments = <<>>]

\* executeCommand for a command of the list
executeCommand(p, id) ==
  IF id = "sift"
  THEN (IF ~hasCurrentFloatAstId(p) THEN p
        ELSE [withSearch(p, <<>>) EXCEPT !.mode = "sift"])
  ELSE IF id = "bind"
  THEN (IF p.extractedFragments = <<>> THEN p
        ELSE [withSearch(p, <<>>) EXCEPT !.mode = "bind"])
  ELSE [resetState(withSearch(p, <<>>)) EXCEPT !.open = FALSE]

\* the record of a call of executeCommand with argument arg
called(p, arg) == [p EXCEPT !.executed = arg, !.calls = 1 - @, !.quiet = FALSE]

\* the index Enter passes of an ArrowUp on an empty list
indexInList(p) == p.selectedIndex >= 0 /\ p.selectedIndex < Len(filteredCommands(p))

paletteRest == <<storeVars, zines, reply, builder, ql>>

\* the storage holds a parsed conversation; the palette is mounted, closed
InitPalette ==
  LET floatAst == parseConversationToFloatAST(<<"B", "o", "b", ":", " ", "h", "i">>, <<"t">>, 0)
  IN  /\ conversations =
           [i \in {ConversationId} |->
              [conversationOf(<<"B", "o", "b", ":", " ", "h", "i">>)
                 EXCEPT !.floatAstId = floatAst.id]]
      /\ floatAsts = [k \in {floatAst.id} |-> floatAstRecord(floatAst.id, floatAst, "null")]
      /\ uuidCount = Len(floatAst.nodes) + 1
      /\ req = [c \in OneClient |-> IdleReq]
      /\ fallbackLog = NoLog
      /\ parse = [h \in Handlers |-> IdleParse]
      /\ fetched = NoResponse
      /\ zines = <<>>
      /\ reply = NoReply
      /\ builder = IdleBuilder
      /\ ql = IdleQL
      /\ \E m \in Mounts : palette = [IdlePalette EXCEPT !.mount = m]

\* the button or Cmd/Ctrl+K of the host: setCommandPaletteOpen(true)
OpenPalette ==
  /\ ~palette.open
  /\ palette' = [palette EXCEPT !.open = TRUE]
  /\ UNCHANGED paletteRest

\* typing into the search input
SetSearch(value) ==
  /\ palette.open /\ palette.mode = "commands"
  /\ palette' = [withSearch(palette, value) EXCEPT !.quiet = FALSE]
  /\ UNCHANGED paletteRest

\* handleKeyDown, ArrowDown
ArrowDown ==
  /\ palette.open /\ palette.mode = "commands"
  /\ palette' = [palette EXCEPT
                   !.selectedIndex = IF @ < Len(filteredCommands(palette)) - 1
                                     THEN @ + 1 ELSE 0,
                   !.quiet = FALSE]
  /\ UNCHANGED paletteRest

\* handleKeyDown, ArrowUp
ArrowUp ==
  /\ palette.open /\ palette.mode = "commands"
  /\ palette' = [palette EXCEPT
                   !.selectedIndex = IF @ > 0 THEN @ - 1
                                     ELSE Len(filteredCommands(palette)) - 1,
                   !.quiet = FALSE]
  /\ UNCHANGED paletteRest

\* handleKeyDown, Enter: executeCommand(filteredCommands[selectedIndex]); with
\* no element at the index the argument is undefined and `command.id` throws
PressEnter ==
  /\ palette.open /\ palette.mode = "commands"
  /\ palette' =
       IF indexInList(palette)
       THEN LET id == filteredCommands(palette)[palette.selectedIndex + 1].id
            IN  called(executeCommand(palette, id), id)
       ELSE called(palette, "undefined")
  /\ UNCHANGED paletteRest

\* a click on the button of a listed command
ClickCommand(i) ==
  /\ palette.open /\ palette.mode = "commands"
  /\ i \in 1..Len(filteredCommands(palette))
  /\ LET id == filteredCommands(palette)[i].id
     IN  palette' = called(executeCommand(palette, id), id)
  /\ UNCHANGED paletteRest

\* "Back to Commands"
BackToCommands ==
  /\ palette.open /\ palette.mode = "sift"
  /\ palette' = [palette EXCEPT !.mode = "commands", !.quiet = FALSE]
  /\ UNCHANGED paletteRest

\* typing into the query textarea
SetSiftQuery(value) ==
  /\ palette.open /\ palette.mode = "sift"
  /\ palette' = [palette EXCEPT !.siftQuery = value, !.quiet = FALSE]
  /\ UNCHANGED paletteRest

\* handleSiftSubmit through the button, which is disabled while the query
\* trims to nothing or the mutation is pending
SiftSubmit ==
  /\ palette.open /\ palette.mode = "sift"
  /\ trim(palette.siftQuery) # <<>>
  /\ ~palette.isPending
  /\ palette' = [palette EXCEPT !.isPending = TRUE, !.quiet = FALSE]
  /\ UNCHANGED paletteRest

\* "Proceed to /bind", rendered while there are fragments
ProceedToBind ==
  /\ palette.open /\ palette.mode = "sift"
  /\ palette.extractedFragments # <<>>
  /\ palette' = [palette EXCEPT !.mode = "bind", !.quiet = FALSE]
  /\ UNCHANGED paletteRest

\* "Back to Fragments"
BackToSift ==
  /\ palette.open /\ palette.mode = "bind"
  /\ palette' = [palette EXCEPT !.mode = "sift", !.quiet = FALSE]
  /\ UNCHANGED paletteRest

\* handleClose: onOpenChange(false) and setTimeout(resetState, 200)
ClosePalette ==
  /\ palette.open
  /\ palette.timers < MaxTimers
  /\ palette' = [palette EXCEPT !.open = FALSE, !.timers = @ + 1]
  /\ UNCHANGED paletteRest

\* a timer of handleClose fires
ResetTimerFires ==
  /\ palette.timers > 0
  /\ palette' = [resetState(palette) EXCEPT
                   !.timers = @ - 1,
                   !.quiet = IF palette.open THEN @ ELSE TRUE]
  /\ UNCHANGED paletteRest

\* onSuccess of the mutation: setExtractedFragments(data.fragments || [])
ResponseArrives(fragments) ==
  /\ palette.isPending
  /\ palette' = [palette EXCEPT !.isPending = FALSE, !.extractedFragments = fragments]
  /\ UNCHANGED paletteRest

\* onError of the mutation: a toast
ResponseFails ==
  /\ palette.isPending
  /\ palette' = [palette EXCEPT !.isPending = FALSE]
  /\ UNCHANGED paletteRest

NextPalette ==
  \/ OpenPalette
  \/ \E value \in Searches : SetSearch(value)
  \/ ArrowDown
  \/ ArrowUp
  \/ PressEnter
  \/ \E i \in 1..Len(commands) : ClickCommand(i)
  \/ BackToCommands
  \/ \E value \in SiftQueries : SetSiftQuery(value)
  \/ SiftSubmit
  \/ ProceedToBind
  \/ BackToSift
  \/ ClosePalette
  \/ ResetTimerFires
  \/ \E fragments \in ResponseFragments : ResponseArrives(fragments)
  \/ ResponseFails

SpecPalette == InitPalette /\ [][NextPalette]_vars

-----------------------------------------------------------------------------
(* The thread builder (ThreadBuilder) *)

MaxThreads == 3   \* threads in the list
MaxTime == 1      \* milliseconds the clock advances

\* selectedThread when no thread is selected
NullThread == <<"null", 0>>

\* the titles typed into the title input
Titles == {"New Thread", "a"}

\* threads.findIndex(t => t.id === threadId), zero-based, -1 when absent
findIndex(threads, threadId) ==
  IF \E i \in 1..Len(threads) : threads[i].id = threadId
  THEN (CHOOSE i \in 1..Len(threads) :
          /\ threads[i].id = threadId
          /\ \A j \in 1..(i - 1) : threads[j].id # threadId) - 1
  ELSE -1

\* threads.filter(thread => thread.id !== id)
RECURSIVE withoutThread(_, _)
withoutThread(threads, id) ==
  IF threads = <<>> THEN <<>>
  ELSE (IF Head(threads).id # id THEN <<Head(threads)>> ELSE <<>>)
         \o withoutThread(Tail(threads), id)

\* a delete that leaves the selection alone
selectionKept(selectedThread, id, updatedThreads) == selectedThread

\* `if (selectedThread === id) setSelectedThread(updatedThreads[0]?.id || null)`
selectionAfterDelete(selectedThread, id, updatedThreads) ==
  IF selectedThread = id
  THEN (IF updatedThreads = <<>> THEN NullThread ELSE updatedThreads[1].id)
  ELSE selectedThread

\* the array with the elements at the zero-based indexes i and j exchanged
swapped(threads, i, j) ==
  [k \in 1..Len(threads) |->
     IF k = i + 1 THEN threads[j + 1]
     ELSE IF k = j + 1 THEN threads[i + 1]
     ELSE threads[k]]

\* the handler that ran last, its argument and the selection it found
ran(op, id) == [op |-> op, id |-> id, selected |-> builder.selectedThread]

builderRest == <<storeVars, zines, reply, palette, ql>>

InitBuilder ==
  /\ conversations = [i \in {ConversationId} |-> conversationOf(<<"o", "k">>)]
  /\ floatAsts = <<>>
  /\ uuidCount = 0
  /\ req = [c \in OneClient |-> IdleReq]
  /\ fallbackLog = NoLog
  /\ parse = [h \in Handlers |-> IdleParse]
  /\ fetched = NoResponse
  /\ othersIdle

\* Date.now() advances
ClockTicks ==
  /\ builder.now < MaxTime
  /\ builder' = [builder EXCEPT !.now = @ + 1, !.last = ran("tick", NullThread)]
  /\ UNCHANGED builderRest

\* createThread
CreateThread ==
  /\ Len(builder.threads) < MaxThreads
  /\ LET newThread == [id |-> <<"thread-", builder.now>>, title |-> "New Thread"]
     IN  builder' = [builder EXCEPT !.threads = Append(@, newThread),
                                    !.selectedThread = newThread.id,
                                    !.last = ran("create", newThread.id)]
  /\ UNCHANGED builderRest

\* the title input of the selected thread: updateThread(id, { title })
RenameThread(title) ==
  /\ findIndex(builder.threads, builder.selectedThread) >= 0
  /\ builder' = [builder EXCEPT
                   !.threads = [k \in 1..Len(@) |->
                                  IF @[k].id = builder.selectedThread
                                  THEN [@[k] EXCEPT !.title = title] ELSE @[k]],
                   !.last = ran("rename", builder.selectedThread)]
  /\ UNCHANGED builderRest

\* a click on a listed thread: setSelectedThread(thread.id)
SelectThread(i) ==
  /\ i \in 1..Len(builder.threads)
  /\ builder' = [builder EXCEPT !.selectedThread = builder.threads[i].id,
                                !.last = ran("select", builder.threads[i].id)]
  /\ UNCHANGED builderRest

\* the delete button of a listed thread: deleteThread(thread.id)
DeleteThread(i) ==
  /\ i \in 1..Len(builder.threads)
  /\ LET id == builder.threads[i].id
         updatedThreads == withoutThread(builder.threads, id)
     IN  builder' = [builder EXCEPT
                       !.threads = updatedThreads,
                       !.selectedThread = selectionAfterDelete(@, id, updatedThreads),
                       !.last = ran("delete", id)]
  /\ UNCHANGED builderRest

\* the up button of a listed thread: moveThreadUp(thread.id)
MoveThreadUp(i) ==
  /\ i \in 1..Len(builder.threads)
  /\ LET id == builder.threads[i].id
         index == findIndex(builder.threads, id)
     IN  builder' = [builder EXCEPT
                       !.threads = IF index > 0 THEN swapped(@, index, index - 1) ELSE @,
                       !.last = ran("moveUp", id)]
  /\ UNCHANGED builderRest

\* the down button of a listed thread: moveThreadDown(thread.id)
MoveThreadDown(i) ==
  /\ i \in 1..Len(builder.threads)
  /\ LET id == builder.threads[i].id
         index == findIndex(builder.threads, id)
     IN  builder' = [builder EXCEPT
                       !.threads = IF index < Len(@) - 1
                                   THEN swapped(@, index, index + 1) ELSE @,
                       !.last = ran("moveDown", id)]
  /\ UNCHANGED builderRest

NextBuilder ==
  \/ ClockTicks
  \/ CreateThread
  \/ \E title \in Titles : RenameThread(title)
  \/ \E i \in 1..MaxThreads : SelectThread(i)
  \/ \E i \in 1..MaxThreads : DeleteThread(i)
  \/ \E i \in 1..MaxThreads : MoveThreadUp(i)
  \/ \E i \in 1..MaxThreads : MoveThreadDown(i)

SpecBuilder == InitBuilder /\ [][NextBuilder]_vars

-----------------------------------------------------------------------------
(* FloatQL where filtering, as the specification describes its evaluation
   (no evaluator is among the sources; the query type is FLOATAST.md 647-653) *)

\* the fields of where the queries use
WhereFields == {"type", "role", "contains"}

\* the values a query gives a predicate: sets of types, sets of roles, a text
PredicateValues(field) ==
  IF field = "type" THEN {{"message"}, {"artifact"}}
  ELSE IF field = "role" THEN {{"human"}, {"assistant"}, {"human", "assistant"}}
  ELSE {<<"h", "i">>, <<"O", "K">>}

\* one predicate on one node: membership for type and role (a node without
\* the field never matches), case-insensitive substring of content.raw for
\* contains.text
predicateMatches(node, field, value) ==
  IF field = "type" THEN node.type \in value
  ELSE IF field = "role" THEN node.role \in value
  ELSE includes(toLowerCase(node.raw), toLowerCase(value))

\* a node passes when it has some predicate it matches
passesAnyPredicate(node, where) ==
  \/ DOMAIN where = {}
  \/ \E field \in DOMAIN where : predicateMatches(node, field, where[field])

\* a node passes iff every specified predicate matches; an absent predicate
\* passes
passesWhere(node, where) ==
  \A field \in DOMAIN where : predicateMatches(node, field, where[field])

\* the nodes that pass, in their order
RECURSIVE evaluateWhere(_, _)
evaluateWhere(nodes, where) ==
  IF nodes = <<>> THEN <<>>
  ELSE (IF passesWhere(Head(nodes), where) THEN <<Head(nodes)>> ELSE <<>>)
         \o evaluateWhere(Tail(nodes), where)

\* where with one more predicate
withPredicate(where, field, value) ==
  [f \in DOMAIN where \cup {field} |-> IF f = field THEN value ELSE where[f]]

qlRest == <<storeVars, zines, reply, palette, builder>>

\* a query without predicates on the nodes of a parsed conversation
InitQL ==
  /\ conversations = [i \in {ConversationId} |-> conversationOf(<<"o", "k">>)]
  /\ floatAsts = <<>>
  /\ uuidCount = 0
  /\ req = [c \in OneClient |-> IdleReq]
  /\ fallbackLog = NoLog
  /\ parse = [h \in Handlers |-> IdleParse]
  /\ fetched = NoResponse
  /\ zines = <<>>
  /\ reply = NoReply
  /\ palette = IdlePalette
  /\ builder = IdleBuilder
  /\ \E content \in ContentsOf(ExtractLines) :
       LET nodes == parseConversationToFloatAST(content, <<"t">>, 0).nodes
       IN  ql = [nodes |-> nodes, where |-> <<>>,
                 result |-> evaluateWhere(nodes, <<>>)]

\* the query is evaluated again with one more predicate
AddPredicate(field, value) ==
  /\ field \notin DOMAIN ql.where
  /\ LET where == withPredicate(ql.where, field, value)
     IN  ql' = [ql EXCEPT !.where = where,
                          !.result = evaluateWhere(ql.nodes, where)]
  /\ UNCHANGED qlRest

NextQL == \E field \in WhereFields : \E value \in PredicateValues(field) :
            AddPredicate(field, value)

SpecQL == InitQL /\ [][NextQL]_vars

-----------------------------------------------------------------------------
(* Properties of the extraction route *)

\* the ceiling the development guide gives for maxFragments
MaxFragmentsCeiling == 20

Items(c) == req[c].response.fragments.items

Answered(c) == req[c].pc = "done" /\ req[c].response.status = 200

FallbackAnswered(c) == Answered(c) /\ req[c].path = "fallback"

FragmentFields == {"text", "relevance", "keywords", "category"}

IsFragmentArray(v) ==
  /\ v.kind = "array"
  /\ \A i \in 1..Len(v.items) : DOMAIN v.items[i] = FragmentFields

\* C1: whichever path produced the result, the number of fragments returned
\* to the caller is at most the requested maximum maxFragments.
C1_AtMostMaxFragments ==
  \A c \in Clients :
    Answered(c) => Len(Items(c)) <= req[c].maxFragments

\* C2: the maximum used by a request is clamped to the ceiling 20: the oracle
\* is never asked for more than 20 fragments and no response holds more.
C2_ClampedToCeiling ==
  \A c \in Clients :
    /\ req[c].pc \in {"oracle", "settled"} => req[c].asked <= MaxFragmentsCeiling
    /\ Answered(c) => Len(Items(c)) <= MaxFragmentsCeiling

\* C3: for a stored FloatAST, a request never ends in an error response
\* because of the oracle, whatever body the route accepted.
C3_NoErrorResponse ==
  \A c \in Clients :
    (req[c].pc = "done" /\ req[c].id \in DOMAIN floatAsts)
      => req[c].response.status = 200

\* C4: the caller always receives an array of fragments of the one shape
\* {text, relevance, keywords, category}, whichever path ran.
C4_AlwaysFragmentShape ==
  \A c \in Clients :
    Answered(c) => IsFragmentArray(req[c].response.fragments)

-----------------------------------------------------------------------------
(* Properties of the fallback *)

QueryWordsOf(c) == splitWhitespace(toLowerCase(req[c].query.value))

NodesOf(c) == req[c].floatAst.nodes

\* the number of places of the query words whose word occurs in node n
ScoreOf(c, n) ==
  Cardinality({w \in 1..Len(QueryWordsOf(c)) :
                 includes(toLowerCase(NodesOf(c)[n].raw), QueryWordsOf(c)[w])})

MatchingNodes(c) == {n \in 1..Len(NodesOf(c)) : ScoreOf(c, n) > 0}

\* node a comes before node b: a higher score, or the same score and a
\* smaller position.index
Outranks(c, a, b) ==
  \/ ScoreOf(c, a) > ScoreOf(c, b)
  \/ ScoreOf(c, a) = ScoreOf(c, b) /\ NodesOf(c)[a].index < NodesOf(c)[b].index

Min(a, b) == IF a <= b THEN a ELSE b

\* C6: the fallback returns a fragment for a node only if a word of the
\* lower-cased query is a substring of the node's lower-cased raw text, and
\* when no node matches it returns the empty sequence.
C6_OnlyMatchingNodes ==
  \A c \in Clients :
    FallbackAnswered(c) =>
      /\ \A i \in 1..Len(Items(c)) :
           \E n \in MatchingNodes(c) : NodesOf(c)[n].raw = Items(c)[i].text
      /\ MatchingNodes(c) = {} => Items(c) = <<>>

\* a fallback answer that left out a node no query word occurs in
C6_Witness ==
  \E c \in Clients :
    /\ FallbackAnswered(c)
    /\ Len(Items(c)) >= 1
    /\ \E n \in 1..Len(NodesOf(c)) :
         /\ n \notin MatchingNodes(c)
         /\ \A i \in 1..Len(Items(c)) : Items(c)[i].text # NodesOf(c)[n].raw

\* C7: the fallback's result is the start of the matching nodes ordered by
\* score descending and position.index ascending: the returned fragments
\* follow that order, no omitted matching node outranks a returned one, and
\* for a maximum N >= 0 exactly the first N (all, if there are fewer) are
\* returned.
C7_RankedPrefix ==
  \A c \in Clients :
    FallbackAnswered(c) =>
      \E sel \in [1..Len(Items(c)) -> MatchingNodes(c)] :
        /\ \A j \in 1..Len(Items(c)) : Items(c)[j].text = NodesOf(c)[sel[j]].raw
        /\ \A j, k \in 1..Len(Items(c)) : j < k => Outranks(c, sel[j], sel[k])
        /\ \A m \in MatchingNodes(c) :
             (\A j \in 1..Len(Items(c)) : sel[j] # m)
               => \A j \in 1..Len(Items(c)) : Outranks(c, sel[j], m)
        /\ req[c].maxFragments >= 0
             => Len(Items(c)) = Min(req[c].maxFragments, Cardinality(MatchingNodes(c)))

\* a fallback answer of three fragments in which the last node of the
\* conversation comes first and the two others, of equal score, follow in
\* the order of their positions
C7_Witness ==
  \E c \in Clients :
    /\ FallbackAnswered(c)
    /\ Len(Items(c)) = 3
    /\ Len(Items(c)[1].keywords) > Len(Items(c)[2].keywords)
    /\ Len(Items(c)[2].keywords) = Len(Items(c)[3].keywords)
    /\ Items(c)[2].text # Items(c)[3].text
    /\ Items(c)[1].text = NodesOf(c)[3].raw
    /\ Items(c)[2].text = NodesOf(c)[1].raw

-----------------------------------------------------------------------------
(* Properties of the parser *)

\* the stored conversations that are linked to a stored FloatAST
LinkedConversations ==
  {k \in DOMAIN conversations : conversations[k].floatAstId \in DOMAIN floatAsts}

\* the nodes of the FloatAST conversation k is linked to
LinkedNodes(k) == floatAsts[conversations[k].floatAstId].data.nodes

\* the non-blank lines of conversation k
SourceLines(k) == nonBlankLines(conversations[k].content)

\* the text before the first colon of a line
LabelOf(line) ==
  SubSeq(line, 1, (CHOOSE p \in 1..Len(line) :
                     line[p] = ":" /\ \A q \in 1..(p - 1) : line[q] # ":") - 1)

\* the label holds the letters of "assistant", in either case, side by side
LabelNamesAssistant(label) ==
  \E k \in 0..(Len(label) - Len(Assistant)) :
    \A j \in 1..Len(Assistant) : LowerChar(label[k + j]) = Assistant[j]

\* C9: the nodes of a parsed conversation carry position.index 0, 1, ...,
\* n-1 in input order.
C9_IndexContiguous ==
  \A id \in DOMAIN floatAsts :
    \A i \in 1..Len(floatAsts[id].data.nodes) :
      floatAsts[id].data.nodes[i].index = i - 1

\* a parsed conversation of three lines, one of them blank, whose first node
\* comes from a line without an author and whose second from one with
C9_Witness ==
  \E id \in DOMAIN floatAsts :
    LET nodes == floatAsts[id].data.nodes
    IN  /\ Len(nodes) = 2
        /\ Len(splitLines(conversations[ConversationId].content)) = 3
        /\ nodes[1].role = "undefined"
        /\ nodes[2].role # "undefined"

\* C10: the node of a line matching the author pattern has role assistant
\* if and only if the text before the first colon contains "assistant" in
\* any case, and role human otherwise.
C10_RoleFromAuthor ==
  \A k \in LinkedConversations :
    /\ Len(LinkedNodes(k)) = Len(SourceLines(k))
    /\ \A i \in 1..Len(SourceLines(k)) :
         messageMatch(SourceLines(k)[i]).matched =>
           LinkedNodes(k)[i].role =
             IF LabelNamesAssistant(LabelOf(SourceLines(k)[i]))
             THEN "assistant" ELSE "human"

\* a parsed conversation with an assistant node whose author is written in
\* capitals and a human node whose text, not its author, says assistant
C10_Witness ==
  \E k \in LinkedConversations :
    \E i, j \in 1..Len(LinkedNodes(k)) :
      /\ LinkedNodes(k)[i].role = "assistant"
      /\ ~includes(LabelOf(SourceLines(k)[i]), Assistant)
      /\ LinkedNodes(k)[j].role = "human"
      /\ includes(LinkedNodes(k)[j].raw, Assistant)

\* the places of the lines of a text that hold a character that is not
\* white space
NonBlankPlaces(content) ==
  {i \in 1..Len(splitLines(content)) :
     \E j \in 1..Len(splitLines(content)[i]) : ~IsSpace(splitLines(content)[i][j])}

\* C11: every non-blank input line yields exactly one node, and a line that
\* fails the author pattern yields a node of type message with no role.
C11_OneNodePerLine ==
  \A k \in LinkedConversations :
    /\ Len(LinkedNodes(k)) = Cardinality(NonBlankPlaces(conversations[k].content))
    /\ \A i \in 1..Len(LinkedNodes(k)) :
         /\ LinkedNodes(k)[i].type = "message"
         /\ ~messageMatch(SourceLines(k)[i]).matched
              => /\ LinkedNodes(k)[i].role = "undefined"
                 /\ LinkedNodes(k)[i].raw = SourceLines(k)[i]

\* a parsed conversation of three lines: one blank, one with an author and
\* one that fails the pattern
C11_Witness ==
  \E k \in LinkedConversations :
    /\ Len(splitLines(conversations[k].content)) = 3
    /\ Len(LinkedNodes(k)) = 2
    /\ \E i, j \in 1..2 :
         /\ messageMatch(SourceLines(k)[i]).matched
         /\ ~messageMatch(SourceLines(k)[j]).matched

\* the edges of the FloatAST conversation k is linked to
LinkedEdges(k) == floatAsts[conversations[k].floatAstId].data.edges

\* C13: each pair of consecutive nodes (i-1, i) is connected by an edge from
\* node i to node i-1: responds_to with weight 1.0 when the roles differ,
\* elaborates when they are the same.
C13_AdjacencyEdges ==
  \A k \in LinkedConversations :
    \A i \in 2..Len(LinkedNodes(k)) :
      \E e \in 1..Len(LinkedEdges(k)) :
        /\ LinkedEdges(k)[e].source = LinkedNodes(k)[i].id
        /\ LinkedEdges(k)[e].target = LinkedNodes(k)[i - 1].id
        /\ LinkedEdges(k)[e].type =
             IF LinkedNodes(k)[i].role # LinkedNodes(k)[i - 1].role
             THEN "responds_to" ELSE "elaborates"

\* the pattern counters of the FloatAST conversation k is linked to
LinkedPatterns(k) == floatAsts[conversations[k].floatAstId].data.patterns

\* C14: persona_switches is the number of adjacent node pairs whose roles
\* differ, and the five pattern counters are non-negative.
C14_PersonaSwitches ==
  \A k \in LinkedConversations :
    /\ LinkedPatterns(k).persona_switches =
         Cardinality({i \in 2..Len(LinkedNodes(k)) :
                        LinkedNodes(k)[i].role # LinkedNodes(k)[i - 1].role})
    /\ \A f \in DOMAIN LinkedPatterns(k) : LinkedPatterns(k)[f] >= 0

-----------------------------------------------------------------------------
(* Properties of the request handling *)

\* the oracle call of request c failed or answered content that does not parse
OracleFailed(c) ==
  \/ req[c].outcome.rejected
  \/ ~req[c].outcome.hasContent
  \/ ~req[c].outcome.content.wellFormed

\* C16: the deterministic fallback runs at most once per request, and only
\* after the one oracle call has failed or returned unparsable content.
C16_FallbackAtMostOnce ==
  \A c \in Clients :
    req[c].pc = "done" =>
      /\ req[c].runs <= 1
      /\ req[c].runs >= 1 => OracleFailed(c)

\* C20: an extract-fragments body of the wrong shape (no query string) is
\* rejected before any oracle call: no such request has its prompt sent.
C20_InvalidBodyRejected ==
  \A c \in Clients :
    req[c].pc \in {"oracle", "settled"} => req[c].query.present

-----------------------------------------------------------------------------
(* Properties of the parse route taken step by step *)

\* the parse requests that have been answered for a conversation they found
AnsweredParses == {h \in Handlers : parse[h].pc = "done" /\ parse[h].found}

\* C12: a parse request for a conversation whose content has no non-blank line
\* is answered 200 with a FloatAST whose node sequence is empty, and that
\* FloatAST is the one stored under its id
C12_EmptyInputSucceeds ==
  \A h \in AnsweredParses :
    NonBlankPlaces(parse[h].conversation.content) = {} =>
      /\ parse[h].response.status = 200
      /\ parse[h].response.body.data.nodes = <<>>
      /\ parse[h].response.body.id \in DOMAIN floatAsts
      /\ floatAsts[parse[h].response.body.id].data.nodes = <<>>

\* a request for a conversation of two blank lines has been answered
C12_Witness ==
  \E h \in AnsweredParses :
    /\ Len(splitLines(parse[h].conversation.content)) = 2
    /\ NonBlankPlaces(parse[h].conversation.content) = {}
    /\ parse[h].response.status = 200

\* C18: the document fetched by id has as many nodes, as many edges and the
\* same concept keys as the FloatAST the parse route assembled and stored
\* under that id
C18_RoundTrip ==
  \A h \in Handlers :
    (/\ parse[h].pc \in {"stored", "linked", "done"}
     /\ parse[h].found
     /\ fetched.status = 200
     /\ fetched.body.id = parse[h].floatAst.id) =>
      /\ Len(fetched.body.data.nodes) = Len(parse[h].floatAst.nodes)
      /\ Len(fetched.body.data.edges) = Len(parse[h].floatAst.edges)
      /\ DOMAIN fetched.body.data.concepts = DOMAIN parse[h].floatAst.concepts

\* a stored FloatAST with a node whose role is undefined and a node that has
\* one has been fetched
C18_Witness ==
  \E h \in Handlers :
    /\ parse[h].pc = "done"
    /\ parse[h].found
    /\ fetched.status = 200
    /\ fetched.body.id = parse[h].floatAst.id
    /\ \E i, j \in 1..Len(parse[h].floatAst.nodes) :
         /\ parse[h].floatAst.nodes[i].role = "undefined"
         /\ parse[h].floatAst.nodes[j].role = "human"

\* C19: at the step in which the parse route answers 200 for conversation c
\* with record r, c exists, c.floatAstId is r.id and r is stored under r.id
C19_LinkedAtResponse ==
  [][\A h \in Handlers :
       (parse[h].pc = "linked" /\ parse'[h].pc = "done") =>
         /\ parse[h].id \in DOMAIN conversations'
         /\ conversations'[parse[h].id].floatAstId = parse[h].record.id
         /\ parse[h].record.id \in DOMAIN floatAsts'
         /\ floatAsts'[parse[h].record.id] = parse[h].record]_vars

-----------------------------------------------------------------------------
(* Properties of two extraction requests at once *)

\* two answered requests that had the same FloatAST, query, maxFragments and
\* oracle outcome
SameArguments(c, d) ==
  /\ req[c].pc = "done"
  /\ req[d].pc = "done"
  /\ req[c].id = req[d].id
  /\ req[c].query = req[d].query
  /\ req[c].maxFragments = req[d].maxFragments
  /\ req[c].outcome = req[d].outcome

\* C17: no step of two interleaved extraction requests changes a stored
\* conversation or a stored FloatAST record, and two requests with the same
\* FloatAST, query, maxFragments and oracle outcome have the same response
C17_ReadOnly ==
  /\ [][conversations' = conversations /\ floatAsts' = floatAsts]_vars
  /\ [](\A c, d \in Clients : SameArguments(c, d) => req[c].response = req[d].response)

\* both callers were answered by the fallback with a fragment, for the same
\* arguments, from a FloatAST of at least two nodes
C17_Witness ==
  /\ SameArguments("r1", "r2")
  /\ req["r1"].path = "fallback"
  /\ req["r1"].response.status = 200
  /\ Len(req["r1"].response.fragments.items) >= 1
  /\ Len(floatAsts[req["r1"].id].data.nodes) >= 2

-----------------------------------------------------------------------------
(* Properties of the conversation and zine routes *)

\* MissingId is the value the model stores for a null floatAstId
IsNullOrStored(floatAstId) == floatAstId = MissingId \/ floatAstId \in DOMAIN floatAsts

\* C21: the floatAstId of every stored conversation and of every stored zine
\* is null or the id of a stored FloatAST record
C21_ReferentialIntegrity ==
  /\ \A id \in DOMAIN conversations : IsNullOrStored(conversations[id].floatAstId)
  /\ \A id \in DOMAIN zines : IsNullOrStored(zines[id].floatAstId)

-----------------------------------------------------------------------------
(* Properties of the fragments the fallback returns *)

\* the places of the query words that occur in node n, in their order
MatchingPlaces(c, n) ==
  {w \in 1..Len(QueryWordsOf(c)) :
     includes(toLowerCase(NodesOf(c)[n].raw), QueryWordsOf(c)[w])}

\* "Contains k query terms", for the counts the bounded queries give
CountDescription(k) ==
  <<"C", "o", "n", "t", "a", "i", "n", "s", " ">>
    \o << <<"0", "1", "2", "3", "4", "5", "6", "7", "8", "9">>[k + 1] >>
    \o <<" ", "q", "u", "e", "r", "y", " ", "t", "e", "r", "m", "s">>

\* fragment f is what the claim says of node n
IsFragmentOf(c, f, n) ==
  /\ DOMAIN f = FragmentFields
  /\ f.text = NodesOf(c)[n].raw
  /\ f.relevance = CountDescription(Cardinality(MatchingPlaces(c, n)))
  /\ f.category = <<"G", "e", "n", "e", "r", "a", "l">>
  /\ Len(f.keywords) = Cardinality(MatchingPlaces(c, n))
  /\ \E place \in [1..Len(f.keywords) -> MatchingPlaces(c, n)] :
       /\ \A i, j \in 1..Len(f.keywords) : i < j => place[i] < place[j]
       /\ \A i \in 1..Len(f.keywords) : f.keywords[i] = QueryWordsOf(c)[place[i]]

C28_BlankQueryMatchesNothing ==
  \A c \in Clients :
    FallbackAnswered(c) =>
      /\ trim(req[c].query.value) = <<>> => Items(c) = <<>>
      /\ \A i \in 1..Len(Items(c)) :
           \A k \in 1..Len(Items(c)[i].keywords) : Items(c)[i].keywords[k] # <<>>

-----------------------------------------------------------------------------
(* Properties of the command palette *)

\* the ids of the commands listed for the search of palette state p
ListedIds(p) == {filteredCommands(p)[i].id : i \in 1..Len(filteredCommands(p))}

\* the step is a call of executeCommand
ExecuteStep == palette'.calls # palette.calls

\* C22: with a conversation parsed into a FloatAST, choosing /sift in the
\* palette as the application mounts it puts the palette into sift mode with
\* a FloatAST id to send the extraction request for
C22_SiftReachable ==
  [][(/\ ExecuteStep
      /\ palette'.executed = "sift"
      /\ palette.mount \in ApplicationMounts
      /\ LinkedConversations # {}) =>
       /\ palette'.mode = "sift"
       /\ hasCurrentFloatAstId(palette')]_vars

IsReset(p) == p.mode = "commands" /\ p.siftQuery = <<>> /\ p.extractedFragments = <<>>

C27_EnterExecutesListed ==
  [][ExecuteStep => palette'.executed \in ListedIds(palette)]_vars

-----------------------------------------------------------------------------
(* Properties of the thread builder *)

ThreadIds(threads) == {threads[i].id : i \in 1..Len(threads)}

\* b has the elements of a, each as often as a has it
IsPermutation(a, b) ==
  /\ Len(a) = Len(b)
  /\ \E pi \in [1..Len(a) -> 1..Len(a)] :
       /\ \A i, j \in 1..Len(a) : i # j => pi[i] # pi[j]
       /\ \A i \in 1..Len(a) : b[i] = a[pi[i]]

\* C30: the selected thread is none or the id of a listed thread; a delete of
\* the selected thread selects the first remaining thread, or none when the
\* list is left empty; move-up and move-down leave a permutation of the list
C30_SelectionInList ==
  /\ [](builder.selectedThread = NullThread
          \/ builder.selectedThread \in ThreadIds(builder.threads))
  /\ [][(builder'.last.op = "delete" /\ builder'.last.id = builder.selectedThread) =>
          builder'.selectedThread =
            IF builder'.threads = <<>> THEN NullThread ELSE builder'.threads[1].id]_vars
  /\ [][builder'.last.op \in {"moveUp", "moveDown"} =>
          IsPermutation(builder.threads, builder'.threads)]_vars

\* the selected thread, which was not the first, was deleted from a list
\* reordered before, and the first remaining thread is selected
C30_Witness ==
  /\ builder.last.op = "delete"
  /\ builder.last.id = builder.last.selected
  /\ Len(builder.threads) >= 2
  /\ builder.selectedThread = builder.threads[1].id
  /\ builder.threads[1].id = <<"thread", 2>>
  /\ builder.last.id = <<"thread-", 0>>

-----------------------------------------------------------------------------
(* Properties of FloatQL where filtering *)

\* C23: evaluating a query with one more predicate in where never gives more
\* nodes than the query gave without it
C23_WhereMonotonic ==
  [][Len(ql'.result) <= Len(ql.result)]_vars

\* a query of two predicates that lets some nodes pass and not all of them
C23_Witness ==
  /\ Cardinality(DOMAIN ql.where) >= 2
  /\ Len(ql.result) >= 1
  /\ Len(ql.result) < Len(ql.nodes)

====
